---- MODULE Spec2Model ----
(***************************************************************************)
(* A model of scripts/generate_resume.py: the ResumeGenerator class that   *)
(* loads YAML resume data, converts inline markdown to LaTeX, escapes the  *)
(* LaTeX special characters, renders a template and compiles it.           *)
(*                                                                         *)
(* A Python str is modelled as a sequence of one-character strings.        *)
(***************************************************************************)
EXTENDS Integers, Sequences, FiniteSets, TLC

VARIABLES
    pc,         \* position of the operation under study
    text,       \* the str argument of convert_markdown_to_latex / escape_latex
    segs,       \* the segments text was written from (plain text and marker spans)
    preserve,   \* the preserve_commands argument of escape_latex
    md,         \* the value convert_markdown_to_latex returned
    out,        \* the value escape_latex returned
    order,      \* an alternative iteration order of the replacements map
    alt,        \* the escaping of text with the replacements applied in that order
    data,       \* the argument of _escape_data (the caller's object)
    orig,       \* the value of data when _escape_data was called
    escaped,    \* the value _escape_data returned
    dir,        \* the files of the source directory: file name -> content
    loaded,     \* what _load_from_directory did: the dict it returned, or raised
    env,        \* outcome of every external call of one generate run
    cls,        \* what is at output/awesome-cv.cls
    fonts,      \* what is at output/fonts
    stages,     \* the stages generate attempted so far, with their outcome
    result,     \* what generate did: pending, True, False, or raised
    exitCode    \* the exit status of the process, -1 while it runs

vars == <<pc, text, segs, preserve, md, out, order, alt, data, orig, escaped,
          dir, loaded, env, cls, fonts, stages, result, exitCode>>

strVars == <<text, segs, preserve, md, out, order, alt>>
dataVars == <<data, orig, escaped>>
loadVars == <<dir, loaded>>
genVars == <<env, cls, fonts, stages, result, exitCode>>

----------------------------------------------------------------------------
(* Bounds of the model.                                                     *)

\* longest raw input string (in tokens) given to the sanitizer
MaxLen == 4
\* longest input string given to escape_latex on its own
MaxEscLen == 2
\* most segments (plain runs and marker spans) an input is written from
MaxSegs == 2
\* most nodes (mappings, lists and leaves) of a nested value
MaxNodes == 4

----------------------------------------------------------------------------
(* Python str operations on sequences of characters.                        *)

\* text[i:].startswith(d), i counted from 1
StartsWithAt(t, i, d) ==
    /\ i + Len(d) - 1 <= Len(t)
    /\ \A k \in 1..Len(d) : t[i + k - 1] = d[k]

\* the least member of a non-empty set of positions
First(S) == CHOOSE p \in S : \A q \in S : p <= q

\* str.find(old, i): the first position from i on where old occurs, 0 when
\* there is none
Find(t, i, old) ==
    LET at == {p \in i..Len(t) : StartsWithAt(t, p, old)}
    IN IF at = {} THEN 0 ELSE First(at)

\* The scan of str.replace from position i on: the text up to the next
\* occurrence of old is copied, the occurrence is replaced, and the scan
\* goes on behind it (so the occurrences replaced do not overlap).
RECURSIVE ReplaceFrom(_, _, _, _)
ReplaceFrom(t, i, old, new) ==
    LET p == Find(t, i, old)
    IN IF p = 0 THEN SubSeq(t, i, Len(t))
       ELSE SubSeq(t, i, p - 1) \o new \o ReplaceFrom(t, p + Len(old), old, new)

\* str.replace(old, new) for a non-empty old: leftmost, non-overlapping
Replace(t, old, new) == ReplaceFrom(t, 1, old, new)

\* Where the lazy group (.+?) followed by the literal d ends when the group
\* starts at position c: the first q > c with d at q, provided no newline
\* is in t[c..q-1] ("." does not match a newline); 0 when there is none.
LazyClose(t, c, d) ==
    LET q == Find(t, c + 1, d)
    IN IF c > Len(t) \/ q = 0 THEN 0
       ELSE IF \E k \in c..(q - 1) : t[k] = "\n" THEN 0
       ELSE q

\* whether the pattern d (.+?) d matches at position p
MatchesAt(t, p, d) == StartsWithAt(t, p, d) /\ LazyClose(t, p + Len(d), d) > 0

\* re.sub(d (.+?) d, start \1 end, t) from position i on: the scan copies
\* the text up to the leftmost position where the pattern matches, replaces
\* the match and goes on behind it; text without a match is copied.
RECURSIVE ReSubFrom(_, _, _, _, _)
ReSubFrom(t, i, d, start, end) ==
    LET at == {p \in i..Len(t) : MatchesAt(t, p, d)}
    IN IF at = {} THEN SubSeq(t, i, Len(t))
       ELSE LET p == First(at)
                q == LazyClose(t, p + Len(d), d)
            IN SubSeq(t, i, p - 1) \o start \o SubSeq(t, p + Len(d), q - 1) \o end
               \o ReSubFrom(t, q + Len(d), d, start, end)

ReSub(t, d, start, end) == ReSubFrom(t, 1, d, start, end)

----------------------------------------------------------------------------
(* The placeholders and the LaTeX commands they stand for.                  *)

TEXTBFSTART == <<"<","<","<","T","E","X","T","B","F","S","T","A","R","T",">",">",">">>
TEXTBFEND   == <<"<","<","<","T","E","X","T","B","F","E","N","D",">",">",">">>
TEXTITSTART == <<"<","<","<","T","E","X","T","I","T","S","T","A","R","T",">",">",">">>
TEXTITEND   == <<"<","<","<","T","E","X","T","I","T","E","N","D",">",">",">">>
TEXTTTSTART == <<"<","<","<","T","E","X","T","T","T","S","T","A","R","T",">",">",">">>
TEXTTTEND   == <<"<","<","<","T","E","X","T","T","T","E","N","D",">",">",">">>

textbf == <<"\\","t","e","x","t","b","f","{">>
textit == <<"\\","t","e","x","t","i","t","{">>
texttt == <<"\\","t","e","x","t","t","t","{">>
closeBrace == <<"}">>

\* The grave accent (U+0060) cannot be written inside a TLA+ string; this
\* atom is that one character wherever it occurs in a str.
backtick == "GRAVE"

\* convert_markdown_to_latex: the four re.sub calls, in the code's order
convert_markdown_to_latex(t) ==
    LET t1 == ReSub(t, <<"*", "*">>, TEXTBFSTART, TEXTBFEND)
        t2 == ReSub(t1, <<"*">>, TEXTBFSTART, TEXTBFEND)
        t3 == ReSub(t2, <<"_">>, TEXTITSTART, TEXTITEND)
        t4 == ReSub(t3, <<backtick>>, TEXTTTSTART, TEXTTTEND)
    IN t4

----------------------------------------------------------------------------
(* escape_latex.                                                            *)

\* A faulty variant of ReplacementKeys: the "if not preserve_commands" block
\* is missing, so _ { } are never keys.
ReplacementKeysWithoutBlock(preserve_commands) ==
    <<"&", "%", "$", "#", "~", "^">>

\* the keys of the replacements dict, in insertion order (the order the
\* for loop visits them)
ReplacementKeys(preserve_commands) ==
    <<"&", "%", "$", "#", "~", "^">>
    \o (IF preserve_commands THEN <<>> ELSE <<"_", "{", "}">>)

\* replacements[char]
Replacement(char) ==
    CASE char = "&" -> <<"\\", "&">>
      [] char = "%" -> <<"\\", "%">>
      [] char = "$" -> <<"\\", "$">>
      [] char = "#" -> <<"\\", "#">>
      [] char = "~" -> <<"\\","t","e","x","t","a","s","c","i","i","t","i","l","d","e","{","}">>
      [] char = "^" -> <<"\\","t","e","x","t","a","s","c","i","i","c","i","r","c","u","m","{","}">>
      [] char = "_" -> <<"\\", "_">>
      [] char = "{" -> <<"\\", "{">>
      [] char = "}" -> <<"\\", "}">>

\* for char, replacement in ...: text = text.replace(char, replacement),
\* with the keys visited in the order keys[i..]
RECURSIVE ApplyReplacements(_, _, _)
ApplyReplacements(t, keys, i) ==
    IF i > Len(keys) THEN t
    ELSE ApplyReplacements(Replace(t, <<keys[i]>>, Replacement(keys[i])), keys, i + 1)

\* the six text.replace calls that turn placeholders into commands
ResolvePlaceholders(t) ==
    LET r1 == Replace(t, TEXTBFSTART, textbf)
        r2 == Replace(r1, TEXTBFEND, closeBrace)
        r3 == Replace(r2, TEXTITSTART, textit)
        r4 == Replace(r3, TEXTITEND, closeBrace)
        r5 == Replace(r4, TEXTTTSTART, texttt)
        r6 == Replace(r5, TEXTTTEND, closeBrace)
    IN r6

\* escape_latex with the replacements visited in the order keys
EscapeWithKeys(t, keys, preserve_commands) ==
    LET e == ApplyReplacements(t, keys, 1)
    IN IF preserve_commands THEN ResolvePlaceholders(e) ELSE e

escape_latex(t, preserve_commands) ==
    EscapeWithKeys(t, ReplacementKeys(preserve_commands), preserve_commands)

\* the str branch of _escape_data
SanitizeStr(t) == escape_latex(convert_markdown_to_latex(t), TRUE)

----------------------------------------------------------------------------
(* Values the variables of the other operations hold while one operation   *)
(* is under study.                                                          *)

NoStr == /\ text = <<>> /\ segs = <<>> /\ preserve = FALSE /\ md = <<>>
         /\ out = <<>> /\ order = <<>> /\ alt = <<>>
NoData == data = "none" /\ orig = "none" /\ escaped = "none"
NoLoad == dir = "none" /\ loaded = "none"
NoGen == /\ env = "none" /\ cls = "absent" /\ fonts = "absent"
         /\ stages = <<>> /\ result = "pending" /\ exitCode = -1

----------------------------------------------------------------------------
(* Input strings.                                                           *)

\* all concatenations of exactly n members of the set toks
RECURSIVE Exactly(_, _)
Exactly(toks, n) ==
    IF n = 0 THEN {<<>>}
    ELSE {tok \o rest : tok \in toks, rest \in Exactly(toks, n - 1)}

UpTo(toks, n) == UNION {Exactly(toks, k) : k \in 0..n}

\* what raw resume strings are written from: a letter, the three marker
\* delimiters, a reserved character, a line break, and literal placeholders
Tokens ==
    {<<"a">>, <<"*">>, <<"_">>, <<backtick>>, <<"&">>, <<"\n">>,
     TEXTBFSTART, TEXTBFEND}

\* the characters escape_latex is tried on: every key of the replacements
\* dict, the backslash and a letter
EscChars ==
    {<<"&">>, <<"%">>, <<"$">>, <<"#">>, <<"~">>, <<"^">>, <<"_">>, <<"{">>,
     <<"}">>, <<"\\">>, <<"a">>}

----------------------------------------------------------------------------
(* Sanitizing one string leaf: _escape_data's str branch, in its two calls. *)

SanConvert ==
    /\ pc = "san_start"
    /\ md' = convert_markdown_to_latex(text)
    /\ pc' = "san_converted"
    /\ UNCHANGED <<text, segs, preserve, out, order, alt>>
    /\ UNCHANGED <<dataVars, loadVars, genVars>>

SanEscape ==
    /\ pc = "san_converted"
    /\ out' = escape_latex(md, preserve)
    /\ pc' = "san_done"
    /\ UNCHANGED <<text, segs, preserve, md, order, alt>>
    /\ UNCHANGED <<dataVars, loadVars, genVars>>

SanNext == SanConvert \/ SanEscape

SanInit ==
    /\ pc = "san_start"
    /\ text \in UpTo(Tokens, MaxLen)
    /\ segs = <<>> /\ preserve = TRUE /\ md = <<>> /\ out = <<>>
    /\ order = <<>> /\ alt = <<>>
    /\ NoData /\ NoLoad /\ NoGen

SpecSan == SanInit /\ [][SanNext]_vars

Placeholders ==
    {[name |-> "BFSTART", chars |-> TEXTBFSTART], [name |-> "BFEND", chars |-> TEXTBFEND],
     [name |-> "ITSTART", chars |-> TEXTITSTART], [name |-> "ITEND", chars |-> TEXTITEND],
     [name |-> "TTSTART", chars |-> TEXTTTSTART], [name |-> "TTEND", chars |-> TEXTTTEND]}

\* The placeholder markers of t from position i on, left to right.
RECURSIVE MarkersFrom(_, _)
MarkersFrom(t, i) ==
    LET at == {p \in i..Len(t) : \E m \in Placeholders : StartsWithAt(t, p, m.chars)}
    IN IF at = {} THEN <<>>
       ELSE LET p == First(at)
                m == CHOOSE x \in Placeholders : StartsWithAt(t, p, x.chars)
            IN <<m.name>> \o MarkersFrom(t, p + Len(m.chars))

Markers(t) == MarkersFrom(t, 1)

HasPlaceholder(t) == Markers(t) # <<>>

EndOf(m) ==
    CASE m = "BFSTART" -> "BFEND"
      [] m = "ITSTART" -> "ITEND"
      [] m = "TTSTART" -> "TTEND"
      [] OTHER -> "none"

\* start, matching end, start, matching end, ...
FlatSpans(ms) ==
    /\ Len(ms) % 2 = 0
    /\ \A i \in 1..Len(ms) : i % 2 = 1 => ms[i + 1] = EndOf(ms[i])

MarkerChars == {"*", "_", backtick}
ReservedChars == {"&", "%", "$", "#", "~", "^"}

Chars(t) == {t[i] : i \in 1..Len(t)}

\* C7: a string with no inline marker delimiter and no reserved character
\* is returned by the sanitizer exactly as it was given.
C7_PlainIdentity ==
    (pc = "san_done" /\ Chars(text) \cap (MarkerChars \cup ReservedChars) = {})
        => out = text

\* C9: for an input without literal placeholder text, the output of
\* convert_markdown_to_latex holds flat placeholder spans only: every start
\* placeholder is followed by the end placeholder of its kind with no other
\* placeholder marker in between (spans neither nest nor cross).
C9_MarkersDoNotNest ==
    (pc \in {"san_converted", "san_done"} /\ ~HasPlaceholder(text))
        => FlatSpans(Markers(md))

----------------------------------------------------------------------------
(* Inputs written as a sequence of plain segments and marker spans.         *)

PlainTexts == {<<"a">>, <<"5", "%">>, <<"~">>, <<"\n">>}
SpanContents == {<<"b">>, <<"c", "&">>}
SpanKinds == {"strong", "star", "underscore", "code"}

Segments ==
    [kind : {"plain"}, c : PlainTexts] \cup [kind : SpanKinds, c : SpanContents]

Delimiter(kind) ==
    CASE kind = "strong" -> <<"*", "*">>
      [] kind = "star" -> <<"*">>
      [] kind = "underscore" -> <<"_">>
      [] kind = "code" -> <<backtick>>
      [] kind = "plain" -> <<>>

\* the source text of one segment
Written(seg) == Delimiter(seg.kind) \o seg.c \o Delimiter(seg.kind)

RECURSIVE SegSeqs(_)
SegSeqs(n) ==
    IF n = 0 THEN {<<>>}
    ELSE SegSeqs(n - 1)
         \cup {<<seg>> \o rest : seg \in Segments,
                                 rest \in {r \in SegSeqs(n - 1) : Len(r) = n - 1}}

RECURSIVE Flatten(_, _)
Flatten(ss, i) == IF i > Len(ss) THEN <<>> ELSE Written(ss[i]) \o Flatten(ss, i + 1)

SpanInit ==
    /\ pc = "san_start"
    /\ segs \in SegSeqs(MaxSegs)
    /\ text = Flatten(segs, 1)
    /\ preserve = TRUE /\ md = <<>> /\ out = <<>> /\ order = <<>> /\ alt = <<>>
    /\ NoData /\ NoLoad /\ NoGen

SpecSpans == SpanInit /\ [][SanNext]_vars

\* the escaping E of the claim: each of & % $ # ~ ^ replaced by its escape
RECURSIVE EscapeReserved(_, _)
EscapeReserved(t, i) ==
    IF i > Len(t) THEN <<>>
    ELSE (IF t[i] \in ReservedChars THEN Replacement(t[i]) ELSE <<t[i]>>)
         \o EscapeReserved(t, i + 1)

Command(kind) ==
    CASE kind \in {"strong", "star"} -> textbf
      [] kind = "underscore" -> textit
      [] kind = "code" -> texttt

Translated(seg) ==
    IF seg.kind = "plain" THEN EscapeReserved(seg.c, 1)
    ELSE Command(seg.kind) \o EscapeReserved(seg.c, 1) \o closeBrace

RECURSIVE TranslatedAll(_, _)
TranslatedAll(ss, i) ==
    IF i > Len(ss) THEN <<>> ELSE Translated(ss[i]) \o TranslatedAll(ss, i + 1)

\* C5: for an input written as plain segments and marker spans **c**, *c*,
\* _c_, `c` in any arrangement, the sanitized string is the same sequence
\* with every plain segment escaped and every span replaced by its command
\* around the escaped content, and it holds no placeholder marker.
C5_SpansTranslated ==
    pc = "san_done" => (out = TranslatedAll(segs, 1) /\ ~HasPlaceholder(out))

----------------------------------------------------------------------------
(* escape_latex on its own, in both modes.                                  *)

EscapeLatex ==
    /\ pc = "esc_start"
    /\ out' = escape_latex(text, preserve)
    /\ pc' = "esc_done"
    /\ UNCHANGED <<text, segs, preserve, md, order, alt>>
    /\ UNCHANGED <<dataVars, loadVars, genVars>>

Swap(keys, i, j) ==
    [k \in 1..Len(keys) |-> IF k = i THEN keys[j] ELSE IF k = j THEN keys[i] ELSE keys[k]]

\* The same call with the for loop visiting the keys of replacements in
\* another order: the code's order with two keys exchanged.
Reorder ==
    /\ pc = "esc_done"
    /\ \E i, j \in 1..Len(ReplacementKeys(preserve)) :
           /\ i < j
           /\ order' = Swap(ReplacementKeys(preserve), i, j)
    /\ alt' = EscapeWithKeys(text, order', preserve)
    /\ pc' = "esc_reordered"
    /\ UNCHANGED <<text, segs, preserve, md, out>>
    /\ UNCHANGED <<dataVars, loadVars, genVars>>

EscNext == EscapeLatex \/ Reorder

EscInit ==
    /\ pc = "esc_start"
    /\ text \in UpTo(EscChars, MaxEscLen)
    /\ preserve \in BOOLEAN
    /\ segs = <<>> /\ md = <<>> /\ out = <<>> /\ order = <<>> /\ alt = <<>>
    /\ NoData /\ NoLoad /\ NoGen

SpecEsc == EscInit /\ [][EscNext]_vars

AlwaysEscaped == {"&", "%", "$", "#", "_", "{", "}"}

\* C4: escape_latex(s, preserve_commands=False) holds no ~ and no ^, and
\* every & % $ # _ { } in it comes right after a backslash.
C4_NoUnescapedReserved ==
    (pc \in {"esc_done", "esc_reordered"} /\ ~preserve) =>
        \A i \in 1..Len(out) :
            /\ out[i] \notin {"~", "^"}
            /\ out[i] \in AlwaysEscaped => (i > 1 /\ out[i - 1] = "\\")

\* reached: a tilde next to an underscore was escaped in the default mode
C4_Witness ==
    /\ pc = "esc_done" /\ ~preserve
    /\ text = <<"~", "_">>
    /\ out = <<"\\","t","e","x","t","a","s","c","i","i","t","i","l","d","e",
               "\\","{","\\","}","\\","_">>

\* C10: applying the replacements in another order of the keys gives the
\* same output as the code's order, in both modes.
C10_OrderIndependent == pc = "esc_reordered" => alt = out

----------------------------------------------------------------------------
(* _escape_data on nested values.                                           *)
(* A Python value is a record [t, v]: t its type, v its content. A dict is  *)
(* the sequence of its items [k, val] in insertion order, keys being strs.  *)

Str(chars) == [t |-> "str", v |-> chars]
List(items) == [t |-> "list", v |-> items]
Dict(items) == [t |-> "dict", v |-> items]
None == [t |-> "NoneType", v |-> "None"]

Leaves ==
    {Str(<<"*", "b", "*">>), Str(<<"x", "&">>),
     [t |-> "int", v |-> 7], [t |-> "bool", v |-> TRUE], None}

DictKeys == {<<"k">>, <<"_", "n", "_">>}

\* the values with exactly n nodes; the item sequences of lists and dicts
\* whose values have m nodes in all
RECURSIVE Values(_), ListItems(_), DictItems(_, _)
Values(n) ==
    IF n = 1 THEN Leaves \cup {List(<<>>), Dict(<<>>)}
    ELSE {List(items) : items \in ListItems(n - 1)}
         \cup {Dict(items) : items \in DictItems(n - 1, {})}

ListItems(m) ==
    IF m = 0 THEN {<<>>}
    ELSE UNION {{<<x>> \o rest : x \in Values(k), rest \in ListItems(m - k)}
                : k \in 1..m}

DictItems(m, used) ==
    IF m = 0 THEN {<<>>}
    ELSE UNION {{<<[k |-> key, val |-> x]>> \o rest :
                    x \in Values(n), rest \in DictItems(m - n, used \cup {key})}
                : key \in DictKeys \ used, n \in 1..m}

\* A faulty variant of _escape_data: the dict comprehension sanitizes the
\* keys as well as the values.
RECURSIVE EscapeDataAndKeys(_)
EscapeDataAndKeys(d) ==
    CASE d.t = "dict" ->
            Dict([i \in 1..Len(d.v) |->
                    [k |-> SanitizeStr(d.v[i].k), val |-> EscapeDataAndKeys(d.v[i].val)]])
      [] d.t = "list" ->
            List([i \in 1..Len(d.v) |-> EscapeDataAndKeys(d.v[i])])
      [] d.t = "str" -> Str(SanitizeStr(d.v))
      [] OTHER -> d

RECURSIVE _escape_data(_)
_escape_data(d) ==
    CASE d.t = "dict" ->
            Dict([i \in 1..Len(d.v) |->
                    [k |-> d.v[i].k, val |-> _escape_data(d.v[i].val)]])
      [] d.t = "list" ->
            List([i \in 1..Len(d.v) |-> _escape_data(d.v[i])])
      [] d.t = "str" -> Str(SanitizeStr(d.v))
      [] OTHER -> d

\* escaped_data = self._escape_data(data), as render_template calls it
EscapeData ==
    /\ pc = "data_start"
    /\ escaped' = _escape_data(data)
    /\ pc' = "data_done"
    /\ UNCHANGED <<data, orig>>
    /\ UNCHANGED <<strVars, loadVars, genVars>>

DataNext == EscapeData

DataInit ==
    /\ pc = "data_start"
    /\ data \in UNION {Values(n) : n \in 1..MaxNodes}
    /\ orig = data
    /\ escaped = "none"
    /\ NoStr /\ NoLoad /\ NoGen

SpecData == DataInit /\ [][DataNext]_vars

\* b has the shape of a, its str leaves are the sanitized str leaves of a at
\* the same place, and its other leaves are those of a
RECURSIVE SanitizedCopy(_, _)
SanitizedCopy(a, b) ==
    /\ b.t = a.t
    /\ CASE a.t = "dict" ->
              /\ Len(b.v) = Len(a.v)
              /\ \A i \in 1..Len(a.v) :
                    /\ b.v[i].k = a.v[i].k
                    /\ SanitizedCopy(a.v[i].val, b.v[i].val)
         [] a.t = "list" ->
              /\ Len(b.v) = Len(a.v)
              /\ \A i \in 1..Len(a.v) : SanitizedCopy(a.v[i], b.v[i])
         [] a.t = "str" -> b.v = SanitizeStr(a.v)
         [] OTHER -> b = a

\* C6: _escape_data returns a value of the same shape (same keys in every
\* mapping, keys not rewritten; same length and order in every list) whose
\* str leaves are the sanitized leaves at the same place and whose other
\* leaves are unchanged, and it leaves its argument as it was.
C6_StructurePreserved ==
    pc = "data_done" => (SanitizedCopy(orig, escaped) /\ data = orig)

\* reached: a list of a mapping and a number; the mapping's str field was
\* sanitized, its key and the number were not touched
C6_Witness ==
    /\ pc = "data_done"
    /\ data = List(<<Dict(<<[k |-> <<"_", "n", "_">>, val |-> Str(<<"*", "b", "*">>)]>>),
                     [t |-> "int", v |-> 7]>>)
    /\ escaped = List(<<Dict(<<[k |-> <<"_", "n", "_">>,
                                val |-> Str(textbf \o <<"b", "}">>)]>>),
                        [t |-> "int", v |-> 7]>>)

----------------------------------------------------------------------------
(* _load_from_directory.                                                    *)
(* A file name is <<stem, extension>>. A file is absent, or holds an empty  *)
(* YAML document ("null"), a YAML mapping ("doc"), or text that is not YAML *)
(* ("bad", on which yaml.safe_load raises).                                 *)

sections ==
    <<"personal", "config", "experience", "projects", "education", "skills",
      "research">>

\* data_dir / f"{section}.yaml"
SectionFile(section) == <<section, "yaml">>

OtherFiles == {<<"notes", "yaml">>, <<"personal", "yml">>}

FileNames == {SectionFile(sections[i]) : i \in 1..Len(sections)} \cup OtherFiles

\* section_file.exists()
FileExists(d, f) == f \in DOMAIN d /\ d[f] # "absent"

\* yaml.safe_load(f) of a file that parses
SafeLoad(content) == IF content = "doc" THEN Dict(<<>>) ELSE None

\* A faulty variant of LoadSections: a section whose file is absent gets a
\* key with the value None.
RECURSIVE LoadSectionsOrNone(_, _, _)
LoadSectionsOrNone(d, i, acc) ==
    IF i > Len(sections) THEN [raised |-> FALSE, data |-> acc]
    ELSE LET f == SectionFile(sections[i])
         IN IF FileExists(d, f)
            THEN IF d[f] = "bad"
                 THEN [raised |-> TRUE, data |-> acc]
                 ELSE LoadSectionsOrNone(d, i + 1,
                        Append(acc, [k |-> sections[i], val |-> SafeLoad(d[f])]))
            ELSE LoadSectionsOrNone(d, i + 1,
                   Append(acc, [k |-> sections[i], val |-> None]))

\* the for loop over sections from position i on, data being the dict built
\* so far; a file that is not YAML ends the call with the parser's exception
RECURSIVE LoadSections(_, _, _)
LoadSections(d, i, acc) ==
    IF i > Len(sections) THEN [raised |-> FALSE, data |-> acc]
    ELSE LET f == SectionFile(sections[i])
         IN IF FileExists(d, f)
            THEN IF d[f] = "bad"
                 THEN [raised |-> TRUE, data |-> acc]
                 ELSE LoadSections(d, i + 1,
                        Append(acc, [k |-> sections[i], val |-> SafeLoad(d[f])]))
            ELSE LoadSections(d, i + 1, acc)

LoadFromDirectory ==
    /\ pc = "load_start"
    /\ loaded' = LoadSections(dir, 1, <<>>)
    /\ pc' = "load_done"
    /\ UNCHANGED dir
    /\ UNCHANGED <<strVars, dataVars, genVars>>

LoadNext == LoadFromDirectory

LoadInit ==
    /\ pc = "load_start"
    /\ \E present \in SUBSET OtherFiles :
         dir \in {d \in [FileNames -> {"absent", "null", "doc", "bad"}] :
                    \A f \in OtherFiles : d[f] = (IF f \in present THEN "doc" ELSE "absent")}
    /\ loaded = "none"
    /\ NoStr /\ NoData /\ NoGen

SpecLoad == LoadInit /\ [][LoadNext]_vars

PresentSections(d) ==
    {sections[i] : i \in {j \in 1..Len(sections) : d[SectionFile(sections[j])] # "absent"}}

BadSections(d) ==
    {sections[i] : i \in {j \in 1..Len(sections) : d[SectionFile(sections[j])] = "bad"}}

KeysOf(items) == {items[i].k : i \in 1..Len(items)}

\* C8: _load_from_directory returns a mapping whose keys are exactly the
\* sections whose <name>.yaml file is present: an absent section has no key
\* (not a key with a null value) and files of other names add no key. (The
\* call returns whenever every present section file parses.)
C8_KeysArePresentSections ==
    pc = "load_done" =>
        /\ loaded.raised <=> BadSections(dir) # {}
        /\ ~loaded.raised =>
              /\ KeysOf(loaded.data) = PresentSections(dir)
              /\ Len(loaded.data) = Cardinality(PresentSections(dir))

\* reached: only personal.yaml and skills.yaml (and two files of other
\* names) are present, and the mapping has exactly the keys personal, skills
C8_Witness ==
    /\ pc = "load_done"
    /\ PresentSections(dir) = {"personal", "skills"}
    /\ \A f \in OtherFiles : dir[f] = "doc"
    /\ ~loaded.raised
    /\ KeysOf(loaded.data) = {"personal", "skills"}

----------------------------------------------------------------------------
(* generate, compile_latex and main: one generation run.                    *)
(* env fixes what every external call of the run does: whether loading,     *)
(* rendering and writing the .tex file succeed, how tectonic ends, and what *)
(* the output directory holds at the two symlink paths beforehand.          *)

\* what may be at a path: nothing, a regular file or directory, a symlink
\* to something that exists, a symlink whose target is missing
PathKinds == {"absent", "file", "link", "dangling"}

\* Path.exists(): follows symlinks, so False for a dangling one
PathExists(p) == p \in {"file", "link"}

\* Path.is_symlink()
IsSymlink(p) == p \in {"link", "dangling"}

CompilerOutcomes == {"ok", "nonzero", "notfound"}

Attempt(name, ok) == Append(stages, [name |-> name, ok |-> ok])

\* generate, lines 316-322: load_resume_data inside try/except Exception
Load ==
    /\ pc = "gen_load"
    /\ stages' = Attempt("load", env.load)
    /\ IF env.load
       THEN pc' = "gen_render" /\ UNCHANGED result
       ELSE pc' = "gen_returned" /\ result' = "False"
    /\ UNCHANGED <<env, cls, fonts, exitCode>>
    /\ UNCHANGED <<strVars, dataVars, loadVars>>

\* A faulty variant of Render: the except clause prints the error and does
\* not return, so the run goes on to compile_latex.
RenderWithoutReturn ==
    /\ pc = "gen_render"
    /\ stages' = Attempt("render", env.render)
    /\ pc' = "gen_write"
    /\ UNCHANGED <<env, cls, fonts, result, exitCode>>
    /\ UNCHANGED <<strVars, dataVars, loadVars>>

\* generate, lines 324-330: render_template (sanitize, then render) inside
\* try/except Exception
Render ==
    /\ pc = "gen_render"
    /\ stages' = Attempt("render", env.render)
    /\ IF env.render
       THEN pc' = "gen_write" /\ UNCHANGED result
       ELSE pc' = "gen_returned" /\ result' = "False"
    /\ UNCHANGED <<env, cls, fonts, exitCode>>
    /\ UNCHANGED <<strVars, dataVars, loadVars>>

\* compile_latex, lines 252-256: open(tex_file, "w") and write, outside any
\* try; an OSError leaves compile_latex and generate
WriteTex ==
    /\ pc = "gen_write"
    /\ stages' = Attempt("write", env.write)
    /\ IF env.write
       THEN pc' = "gen_symlinks" /\ UNCHANGED result
       ELSE pc' = "gen_returned" /\ result' = "raised"
    /\ UNCHANGED <<env, cls, fonts, exitCode>>
    /\ UNCHANGED <<strVars, dataVars, loadVars>>

\* symlink_to raises FileExistsError when something is at the path; after
\* "if not exists()" that is a dangling symlink
SymlinkFails(p) == ~PathExists(p) /\ p # "absent"

\* the path after "if not p.exists(): p.symlink_to(...)" went through
AfterSymlink(p) == IF PathExists(p) THEN p ELSE "link"

\* compile_latex, lines 258-263, inside the try: FileExistsError is neither
\* CalledProcessError nor FileNotFoundError, so only the finally clause runs
CreateSymlinks ==
    /\ pc = "gen_symlinks"
    /\ IF SymlinkFails(cls)
       THEN /\ UNCHANGED <<cls, fonts>>
            /\ stages' = Attempt("symlinks", FALSE)
            /\ result' = "raised"
            /\ pc' = "gen_finally"
       ELSE /\ cls' = AfterSymlink(cls)
            /\ IF SymlinkFails(fonts)
               THEN /\ UNCHANGED fonts
                    /\ stages' = Attempt("symlinks", FALSE)
                    /\ result' = "raised"
                    /\ pc' = "gen_finally"
               ELSE /\ fonts' = AfterSymlink(fonts)
                    /\ stages' = Attempt("symlinks", TRUE)
                    /\ UNCHANGED result
                    /\ pc' = "gen_compile"
    /\ UNCHANGED <<env, exitCode>>
    /\ UNCHANGED <<strVars, dataVars, loadVars>>

\* compile_latex, lines 265-289: subprocess.run(check=True) and the two
\* except clauses
RunCompiler ==
    /\ pc = "gen_compile"
    /\ stages' = Attempt("compile", env.compiler = "ok")
    /\ result' = IF env.compiler = "ok" THEN "True" ELSE "False"
    /\ pc' = "gen_finally"
    /\ UNCHANGED <<env, cls, fonts, exitCode>>
    /\ UNCHANGED <<strVars, dataVars, loadVars>>

\* A faulty variant of AfterUnlink: the clean-up tests exists() where the
\* code tests is_symlink(), so a dangling symlink stays.
AfterUnlinkIfExists(p) == IF PathExists(p) THEN "absent" ELSE p

\* the path after "if p.is_symlink(): p.unlink()"
AfterUnlink(p) == IF IsSymlink(p) THEN "absent" ELSE p

\* compile_latex, lines 290-295: the finally clause
Finally ==
    /\ pc = "gen_finally"
    /\ cls' = AfterUnlink(cls)
    /\ fonts' = AfterUnlink(fonts)
    /\ pc' = "gen_returned"
    /\ UNCHANGED <<env, stages, result, exitCode>>
    /\ UNCHANGED <<strVars, dataVars, loadVars>>

\* main, lines 361-364: sys.exit(0 if success else 1); an exception that
\* left generate ends the interpreter with a traceback and status 1
MainExit ==
    /\ pc = "gen_returned"
    /\ exitCode' = IF result = "True" THEN 0 ELSE 1
    /\ pc' = "gen_exit"
    /\ UNCHANGED <<env, cls, fonts, stages, result>>
    /\ UNCHANGED <<strVars, dataVars, loadVars>>

GenNext ==
    \/ Load
    \/ Render
    \/ WriteTex
    \/ CreateSymlinks
    \/ RunCompiler
    \/ Finally
    \/ MainExit

GenInit ==
    /\ pc = "gen_load"
    /\ env \in [load : BOOLEAN, render : BOOLEAN, write : BOOLEAN,
                 compiler : CompilerOutcomes, cls : PathKinds, fonts : PathKinds]
    /\ cls = env.cls
    /\ fonts = env.fonts
    /\ stages = <<>>
    /\ result = "pending"
    /\ exitCode = -1
    /\ NoStr /\ NoData /\ NoLoad

SpecGen == GenInit /\ [][GenNext]_vars

StageOrder == <<"load", "render", "write", "symlinks", "compile">>

Attempted(name) == \E i \in 1..Len(stages) : stages[i].name = name

RunEnded == pc \in {"gen_returned", "gen_exit"}

\* C1: when a run that reached the symlink-creation step has ended, neither
\* output/awesome-cv.cls nor output/fonts is a symlink, whatever the compiler
\* did and whether or not creating the symlinks failed.
C1_SymlinksCleanedUp ==
    (RunEnded /\ Attempted("symlinks")) => (~IsSymlink(cls) /\ ~IsSymlink(fonts))

\* reached: output/awesome-cv.cls was created by the run, output/fonts was a
\* dangling symlink so its creation failed, and both are gone at the end
C1_Witness ==
    /\ RunEnded
    /\ env.cls = "absent" /\ env.fonts = "dangling"
    /\ stages[Len(stages)] = [name |-> "symlinks", ok |-> FALSE]
    /\ cls = "absent" /\ fonts = "absent"

\* C2: the stages are attempted in the order load, render, write, symlinks,
\* compile, each only after every earlier one succeeded, and generate
\* returns True only after the compiler was invoked and exited with zero.
C2_StageOrder ==
    /\ Len(stages) <= Len(StageOrder)
    /\ \A i \in 1..Len(stages) : stages[i].name = StageOrder[i]
    /\ \A i \in 1..Len(stages) : i < Len(stages) => stages[i].ok
    /\ result = "True" =>
          /\ Len(stages) = Len(StageOrder)
          /\ stages[Len(stages)] = [name |-> "compile", ok |-> TRUE]
          /\ env.compiler = "ok"

\* reached: rendering failed, so the run ended with False after two stages
C2_Witness ==
    /\ RunEnded
    /\ result = "False"
    /\ stages = <<[name |-> "load", ok |-> TRUE], [name |-> "render", ok |-> FALSE]>>

\* C3: whatever the stages do, generate returns a boolean, no exception
\* leaves it, and main exits with 0 on success and 1 on failure.
C3_FailuresBecomeFalse ==
    pc = "gen_exit" =>
        /\ result \in {"True", "False"}
        /\ exitCode = (IF result = "True" THEN 0 ELSE 1)

====
